---- MODULE Spec2Model ----
(***************************************************************************)
(* Fixed-window rate limiter (package ratelimit, fixed-window.go).         *)
(*                                                                         *)
(* One FixedWindow instance is shared by                                   *)
(*   - caller goroutines, which call Accept() and Counter();               *)
(*   - one controlling goroutine, which calls Do() and Stop() one after    *)
(*     the other (and, in SpecCfg, assigns the exported fields; in         *)
(*     SpecConfig, calls Validate());                                      *)
(*   - the resetter goroutines `go fw.reset()` started by Do();            *)
(*   - the runtime's tickers, which deliver ticks on ticker.C.             *)
(*                                                                         *)
(* Every read and write of a field of the struct is one step, so that the  *)
(* accesses the code makes without holding fw.mu (reset, Stop, Counter)    *)
(* interleave with the ones made inside Accept's critical section.         *)
(* A panic or a fatal runtime error ends the program: `panicked` records   *)
(* it and no step is taken afterwards.                                     *)
(***************************************************************************)
EXTENDS Integers, FiniteSets, Sequences, TLC

(* ------------------------------ bounds --------------------------------- *)
\* caller goroutines
NumCallers == 2
\* Accept() calls begun, over all callers
MaxAccepts == 5
\* ticks the tickers deliver, over all tickers
MaxTicks == 1
\* Do() calls (successful or not)
MaxDo == 2
\* Stop() calls
MaxStop == 1
\* Accept() calls begun in SpecReDo and SpecCfg
MaxAcceptsReDo == 2
\* assignments of the exported fields after construction (SpecCfg only)
MaxReconf == 1
\* largest Limit a configuration is drawn with
MaxLimit == 2
\* Validate() calls made by the owner (SpecConfig only)
MaxValidate == 2

Callers == 1..NumCallers
\* a Do() allocates one mutex, one ticker and one resetter goroutine: the
\* n-th allocation is named n; 0 is the nil pointer
Ids == 1..MaxDo
Nil == 0

(* ------------------------- 64-bit arithmetic --------------------------- *)
\* A uint64 / int64 value is its eight bytes, least significant first, so
\* that products keep the width of the machine word and wrap as Go's do.
RECURSIVE MulCarry(_, _, _, _)
MulCarry(x, k, i, carry) ==
    IF i > Len(x) THEN <<>>
    ELSE LET v == x[i] * k + carry
         IN  <<v % 256>> \o MulCarry(x, k, i + 1, v \div 256)

\* x * k in the width of x (the carry out of the top byte is lost), k small
MulSmall(x, k) == MulCarry(x, k, 1, 0)

RECURSIVE AddCarry(_, _, _)
AddCarry(x, i, carry) ==
    IF i > Len(x) THEN <<>>
    ELSE LET v == x[i] + carry
         IN  <<v % 256>> \o AddCarry(x, i + 1, v \div 256)

\* x + k in the width of x, k small
AddSmall(x, k) == AddCarry(x, 1, k)

\* the uint64 of a small natural number (below 2^31)
U64(n) ==
    <<n % 256, (n \div 256) % 256, (n \div 65536) % 256, (n \div 16777216) % 256,
      0, 0, 0, 0>>

\* the uint64 thousands * 1000 + units
U64k(thousands, units) == AddSmall(MulSmall(U64(thousands), 1000), units)

\* the largest uint64
MaxU64 == <<255, 255, 255, 255, 255, 255, 255, 255>>

\* an int64 is positive: sign bit clear and not zero
Positive64(x) == x[8] < 128 /\ x # U64(0)

\* The configurations a limiter is constructed with: the README's window of
\* 5 seconds with every limit up to MaxLimit, the other two units, and one
\* configuration for each thing Validate rejects. (The unit and the length of
\* the window only set the real-time period of the ticks.)
Configs ==
    {<<U64(5), "second", l>> : l \in 1..MaxLimit}
      \cup {<<U64(5), "minute", 1>>, <<U64(5), "hour", 1>>}
      \cup {<<U64(0), "second", 1>>, <<U64(5), "second", 0>>, <<U64(5), "day", 1>>}

\* Window lengths over the whole range of a uint64: zero, small ones, the
\* last length whose period fits an int64 and the first that does not, for
\* the hour (2562047 h), the minute (153722867 min) and the second
\* (9223372036 s), a length whose period wraps around to a positive value
\* (18446744074 s), and the largest uint64.
WideDurations ==
    {U64(0), U64(1), U64(5),
     U64(2562047), U64(2562048),
     U64(153722867), U64(153722868),
     U64k(9223372, 36), U64k(9223372, 37),
     U64k(18446744, 74), MaxU64}

\* every window length above with every unit, the three known ones and an
\* unknown one, and every limit from 0
WideConfigs ==
    {<<d, u, l>> : d \in WideDurations, u \in {"second", "minute", "hour", "day"},
                   l \in 0..MaxLimit}

VARIABLES
    \* ---- the struct's fields
    Duration, Unit, Limit,   \* exported configuration (Duration as a uint64)
    counter,                 \* fw.counter
    ticker,                  \* fw.ticker: Nil or a ticker id
    stop,                    \* fw.stop
    mu,                      \* fw.mu: Nil or a mutex id
    \* ---- the heap objects the fields point to
    held,                    \* held[m]: mutex m is write-locked
    tickRunning,             \* tickRunning[t]: ticker t has not been stopped
    tickBuf,                 \* tickBuf[t]: ticks waiting in ticker t's channel (0 or 1)
    \* ---- caller goroutines
    pc,                      \* position of each caller
    mloc,                    \* the mutex fw.mu.Lock() was called on
    dloc,                    \* the mutex the deferred Unlock() is bound to
    cval,                    \* counter value the caller works with
    acc,                     \* the named result `accepted`
    \* ---- controlling goroutine
    cpc,                     \* position inside Do() / Stop()
    doErr,                   \* what the last Do() returned
    verr,                    \* what the last Validate() call by the owner returned
    \* ---- resetter goroutines
    rpc,                     \* position of each resetter
    rch,                     \* the channel fw.ticker.C evaluated to
    \* ---- program status
    panicked,                \* "none", or the panic / fatal error that ended it
    \* ---- history (not read by the program)
    afterStop,               \* the caller's current Accept() began after a Stop() returned
    stopReturned,            \* some Stop() has returned
    atStopInWrite,           \* resetters that had consumed a tick when Stop() last returned
    accepts,                 \* Accept() calls begun
    nTrue, nFalse,           \* Accept() calls that returned true / false
    winTrue,                 \* increments made by Accept since the last reset write (or Do)
    resets,                  \* counter = 0 assignments made by resetters
    ticks,                   \* ticks delivered
    doCalls, doOk, stopCalls, reconfs,
    valCalls                 \* Validate() calls made by the owner

cfgVars == <<Duration, Unit, Limit>>
fieldVars == <<counter, ticker, stop, mu>>
heapVars == <<held, tickRunning, tickBuf>>
callerVars == <<pc, mloc, dloc, cval, acc>>
ctlVars == <<cpc, doErr>>
valVars == <<verr, valCalls>>
resetVars == <<rpc, rch>>
histVars == <<afterStop, stopReturned, atStopInWrite,
              accepts, nTrue, nFalse, winTrue, resets, ticks, doCalls, doOk,
              stopCalls, reconfs>>
vars == <<cfgVars, valVars, fieldVars, heapVars, callerVars, ctlVars, resetVars,
          panicked, histVars>>

Alive == panicked = "none"

(* --------------------------- pure functions ---------------------------- *)
\* mutant of Validate: the limit is looked at before the duration
Validate_LimitFirst(d, u, l) ==
    IF l = 0 THEN "limit must be greater than zero"
    ELSE IF d = U64(0) THEN "duration must be greater than zero"
    ELSE IF u # "second" /\ u # "minute" /\ u # "hour" THEN "expected one of them"
    ELSE "nil"

\* Validate(): the error it returns, "nil" for none
Validate(d, u, l) ==
    IF d = U64(0) THEN "duration must be greater than zero"
    ELSE IF l = 0 THEN "limit must be greater than zero"
    ELSE IF u # "second" /\ u # "minute" /\ u # "hour" THEN "expected one of them"
    ELSE "nil"

\* time.Second, time.Minute and time.Hour in nanoseconds, as factors
\* (10^9, 60 * 10^9 and 3600 * 10^9 are above TLC's integers; a product
\* modulo 2^64 is the same taken factor by factor)
Nanoseconds(u) ==
    CASE u = "second" -> <<1000, 1000, 1000>>
      [] u = "minute" -> <<60, 1000, 1000, 1000>>
      [] u = "hour"   -> <<3600, 1000, 1000, 1000>>

RECURSIVE Times(_, _)
Times(x, factors) ==
    IF factors = <<>> THEN x
    ELSE Times(MulSmall(x, Head(factors)), Tail(factors))

\* what duration() answers for a unit outside the switch: it panics
Unsupported == <<>>

\* duration(): time.Duration(fw.Duration) * time.Second (Minute, Hour), an
\* int64 product that wraps
duration(d, u) ==
    IF u \in {"second", "minute", "hour"} THEN Times(d, Nanoseconds(u))
    ELSE Unsupported

\* mutant of Incr: the counter is left as it was
Incr_Nothing(c) == c

\* fw.counter++ (the calls are bounded by MaxAccepts, far from 2^64)
Incr(c) == c + 1

\* mutant of Admits: the comparison written as "not above the limit"
Admits_UpTo(c, l) == c <= l

\* accepted = !fw.stop && fw.counter != fw.Limit, second operand
Admits(c, l) == c # l

\* the struct as its owner constructs it, FixedWindow{Duration, Unit, Limit}
\* with a configuration of `configs`, every other field at its zero value
InitFrom(configs) ==
    /\ \E c \in configs : Duration = c[1] /\ Unit = c[2] /\ Limit = c[3]
    /\ counter = 0 /\ ticker = Nil /\ stop = FALSE /\ mu = Nil
    /\ held = [m \in Ids |-> FALSE]
    /\ tickRunning = [t \in Ids |-> FALSE]
    /\ tickBuf = [t \in Ids |-> 0]
    /\ pc = [p \in Callers |-> "idle"]
    /\ mloc = [p \in Callers |-> Nil]
    /\ dloc = [p \in Callers |-> Nil]
    /\ cval = [p \in Callers |-> 0]
    /\ acc = [p \in Callers |-> FALSE]
    /\ cpc = "idle" /\ doErr = "none"
    /\ rpc = [i \in Ids |-> "none"]
    /\ rch = [i \in Ids |-> Nil]
    /\ panicked = "none"
    /\ afterStop = [p \in Callers |-> FALSE]
    /\ stopReturned = FALSE /\ atStopInWrite = {}
    /\ accepts = 0 /\ nTrue = 0 /\ nFalse = 0 /\ winTrue = 0
    /\ resets = 0 /\ ticks = 0
    /\ doCalls = 0 /\ doOk = 0 /\ stopCalls = 0 /\ reconfs = 0
    /\ verr = "none" /\ valCalls = 0

Init == InitFrom(Configs)

(* ------------------------------ Accept --------------------------------- *)
\* accepted calls that have made their increment and not yet returned
PastIncrement == Cardinality({p \in Callers : pc[p] = "ret" /\ acc[p]})

\* fw.mu.Lock(), first half: the receiver fw.mu is read (a nil *RWMutex
\* panics inside Lock)
AcceptBegin(p) ==
    /\ Alive /\ pc[p] = "idle" /\ accepts < MaxAccepts
    /\ accepts' = accepts + 1
    /\ IF mu = Nil
       THEN /\ panicked' = "Accept: nil mutex"
            /\ UNCHANGED <<pc, mloc, afterStop>>
       ELSE /\ mloc' = [mloc EXCEPT ![p] = mu]
            /\ pc' = [pc EXCEPT ![p] = "lock"]
            /\ afterStop' = [afterStop EXCEPT ![p] = stopReturned]
            /\ UNCHANGED panicked
    /\ UNCHANGED <<cfgVars, valVars, fieldVars, heapVars, dloc, cval, acc, ctlVars, resetVars,
                   stopReturned, atStopInWrite,
                   nTrue, nFalse, winTrue, resets, ticks, doCalls, doOk, stopCalls,
                   reconfs>>

\* mutant of AcceptLock: a lock that does not wait for its holder
AcceptLock_NoExclusion(p) ==
    /\ Alive /\ pc[p] = "lock"
    /\ held' = [held EXCEPT ![mloc[p]] = TRUE]
    /\ pc' = [pc EXCEPT ![p] = "defer"]
    /\ UNCHANGED <<cfgVars, valVars, fieldVars, tickRunning, tickBuf, mloc, dloc, cval, acc,
                   ctlVars, resetVars, panicked, histVars>>

\* fw.mu.Lock(), second half: blocks until the mutex is free
AcceptLock(p) ==
    /\ Alive /\ pc[p] = "lock" /\ ~held[mloc[p]]
    /\ held' = [held EXCEPT ![mloc[p]] = TRUE]
    /\ pc' = [pc EXCEPT ![p] = "defer"]
    /\ UNCHANGED <<cfgVars, valVars, fieldVars, tickRunning, tickBuf, mloc, dloc, cval, acc,
                   ctlVars, resetVars, panicked, histVars>>

\* defer fw.mu.Unlock(): the receiver fw.mu is read again, now
AcceptDefer(p) ==
    /\ Alive /\ pc[p] = "defer"
    /\ dloc' = [dloc EXCEPT ![p] = mu]
    /\ pc' = [pc EXCEPT ![p] = "rdstop"]
    /\ UNCHANGED <<cfgVars, valVars, fieldVars, heapVars, mloc, cval, acc, ctlVars, resetVars,
                   panicked, histVars>>

\* !fw.stop: the right operand of && is not evaluated when stop is set
AcceptReadStop(p) ==
    /\ Alive /\ pc[p] = "rdstop"
    /\ IF stop
       THEN /\ acc' = [acc EXCEPT ![p] = FALSE]
            /\ pc' = [pc EXCEPT ![p] = "ret"]
       ELSE /\ pc' = [pc EXCEPT ![p] = "rdctr"]
            /\ UNCHANGED acc
    /\ UNCHANGED <<cfgVars, valVars, fieldVars, heapVars, mloc, dloc, cval, ctlVars, resetVars,
                   panicked, histVars>>

\* fw.counter != fw.Limit
AcceptReadCounter(p) ==
    /\ Alive /\ pc[p] = "rdctr"
    /\ cval' = [cval EXCEPT ![p] = counter]
    /\ acc' = [acc EXCEPT ![p] = Admits(counter, Limit)]
    /\ pc' = [pc EXCEPT ![p] = IF Admits(counter, Limit) THEN "load" ELSE "ret"]
    /\ UNCHANGED <<cfgVars, valVars, fieldVars, heapVars, mloc, dloc, ctlVars, resetVars,
                   panicked, histVars>>

\* fw.counter++, the load: the compiler may keep the value the comparison read
\* or load the field again; reset() writes the field without the lock, so the
\* two differ
AcceptLoad(p) ==
    /\ Alive /\ pc[p] = "load"
    /\ \E v \in {cval[p], counter} : cval' = [cval EXCEPT ![p] = v]
    /\ pc' = [pc EXCEPT ![p] = "store"]
    /\ UNCHANGED <<cfgVars, valVars, fieldVars, heapVars, mloc, dloc, acc, ctlVars, resetVars,
                   panicked, histVars>>

\* mutant of AcceptStore: the increment is computed and not stored
AcceptStore_NoWrite(p) ==
    /\ Alive /\ pc[p] = "store"
    /\ winTrue' = winTrue + 1
    /\ pc' = [pc EXCEPT ![p] = "ret"]
    /\ UNCHANGED <<cfgVars, valVars, fieldVars, heapVars, mloc, dloc, cval, acc, ctlVars,
                   resetVars, panicked, afterStop,
                   stopReturned, atStopInWrite, accepts, nTrue, nFalse, resets, ticks,
                   doCalls, doOk, stopCalls, reconfs>>

\* fw.counter++, the store
AcceptStore(p) ==
    /\ Alive /\ pc[p] = "store"
    /\ counter' = Incr(cval[p])
    /\ winTrue' = winTrue + 1
    /\ pc' = [pc EXCEPT ![p] = "ret"]
    /\ UNCHANGED <<cfgVars, valVars, ticker, stop, mu, heapVars, mloc, dloc, cval, acc, ctlVars,
                   resetVars, panicked, afterStop,
                   stopReturned, atStopInWrite, accepts, nTrue, nFalse, resets, ticks,
                   doCalls, doOk, stopCalls, reconfs>>

\* mutant of AcceptReturn: the mutex is released on the accepting path only
AcceptReturn_KeepsLockOnReject(p) ==
    /\ Alive /\ pc[p] = "ret"
    /\ IF ~held[dloc[p]]
       THEN /\ panicked' = "fatal: Unlock of unlocked RWMutex"
            /\ UNCHANGED <<held, pc, mloc, dloc, cval, acc, afterStop, nTrue, nFalse>>
       ELSE /\ held' = [held EXCEPT ![dloc[p]] = ~acc[p]]
            /\ nTrue' = IF acc[p] THEN nTrue + 1 ELSE nTrue
            /\ nFalse' = IF acc[p] THEN nFalse ELSE nFalse + 1
            /\ pc' = [pc EXCEPT ![p] = "idle"]
            /\ mloc' = [mloc EXCEPT ![p] = Nil]
            /\ dloc' = [dloc EXCEPT ![p] = Nil]
            /\ cval' = [cval EXCEPT ![p] = 0]
            /\ acc' = [acc EXCEPT ![p] = FALSE]
            /\ afterStop' = [afterStop EXCEPT ![p] = FALSE]
            /\ UNCHANGED panicked
    /\ UNCHANGED <<cfgVars, valVars, fieldVars, tickRunning, tickBuf, ctlVars,
                   resetVars, stopReturned, atStopInWrite, accepts,
                   winTrue, resets, ticks, doCalls, doOk, stopCalls, reconfs>>

\* return: the deferred Unlock() runs (unlocking an unlocked RWMutex is a
\* fatal error) and the caller gets `accepted`
AcceptReturn(p) ==
    /\ Alive /\ pc[p] = "ret"
    /\ IF ~held[dloc[p]]
       THEN /\ panicked' = "fatal: Unlock of unlocked RWMutex"
            /\ UNCHANGED <<held, pc, mloc, dloc, cval, acc, afterStop, nTrue, nFalse>>
       ELSE /\ held' = [held EXCEPT ![dloc[p]] = FALSE]
            /\ nTrue' = IF acc[p] THEN nTrue + 1 ELSE nTrue
            /\ nFalse' = IF acc[p] THEN nFalse ELSE nFalse + 1
            /\ pc' = [pc EXCEPT ![p] = "idle"]
            /\ mloc' = [mloc EXCEPT ![p] = Nil]
            /\ dloc' = [dloc EXCEPT ![p] = Nil]
            /\ cval' = [cval EXCEPT ![p] = 0]
            /\ acc' = [acc EXCEPT ![p] = FALSE]
            /\ afterStop' = [afterStop EXCEPT ![p] = FALSE]
            /\ UNCHANGED panicked
    /\ UNCHANGED <<cfgVars, valVars, fieldVars, tickRunning, tickBuf, ctlVars, resetVars,
                   stopReturned, atStopInWrite, accepts,
                   winTrue, resets, ticks, doCalls, doOk, stopCalls, reconfs>>

(* ------------------------------ Counter -------------------------------- *)
\* mutant of Counter: the permits left in the window instead of the ones used
Counter_Remaining == Limit - counter

\* Counter(): return fw.counter, one read of the field, no lock
Counter == counter

(* ------------------------------ Validate ------------------------------- *)
\* the owner calls Validate(): the fields are read, none is assigned
ValidateCall ==
    /\ Alive /\ cpc = "idle" /\ valCalls < MaxValidate
    /\ valCalls' = valCalls + 1
    /\ verr' = Validate(Duration, Unit, Limit)
    /\ UNCHANGED <<cfgVars, fieldVars, heapVars, callerVars, ctlVars, resetVars,
                   panicked, histVars>>

(* -------------------------------- Do ----------------------------------- *)
\* mutant of DoValidate: the error is kept and initialization goes on
DoValidate_IgnoresError ==
    /\ Alive /\ cpc = "idle" /\ doCalls < MaxDo
    /\ doCalls' = doCalls + 1
    /\ doErr' = Validate(Duration, Unit, Limit)
    /\ cpc' = "DoMu"
    /\ UNCHANGED <<cfgVars, valVars, fieldVars, heapVars, callerVars, resetVars, panicked,
                   afterStop, stopReturned,
                   atStopInWrite, accepts, nTrue, nFalse, winTrue, resets, ticks,
                   doOk, stopCalls, reconfs>>

\* if err = fw.Validate(); err != nil { return err }
DoValidate ==
    /\ Alive /\ cpc = "idle" /\ doCalls < MaxDo
    /\ doCalls' = doCalls + 1
    /\ IF Validate(Duration, Unit, Limit) # "nil"
       THEN /\ doErr' = Validate(Duration, Unit, Limit)
            /\ UNCHANGED cpc
       ELSE /\ cpc' = "DoMu"
            /\ UNCHANGED doErr
    /\ UNCHANGED <<cfgVars, valVars, fieldVars, heapVars, callerVars, resetVars, panicked,
                   afterStop, stopReturned,
                   atStopInWrite, accepts, nTrue, nFalse, winTrue, resets, ticks,
                   doOk, stopCalls, reconfs>>

\* fw.mu = &sync.RWMutex{}
DoMu ==
    /\ Alive /\ cpc = "DoMu"
    /\ mu' = doOk + 1
    /\ cpc' = "DoTicker"
    /\ UNCHANGED <<cfgVars, valVars, counter, ticker, stop, heapVars, callerVars, doErr,
                   resetVars, panicked, histVars>>

\* fw.ticker = time.NewTicker(fw.duration()): duration() panics on an
\* unsupported unit, NewTicker on a non-positive interval
DoTicker ==
    /\ Alive /\ cpc = "DoTicker"
    /\ IF duration(Duration, Unit) = Unsupported
       THEN /\ panicked' = "Do: unsupported time unit"
            /\ UNCHANGED <<ticker, tickRunning, cpc>>
       ELSE IF ~Positive64(duration(Duration, Unit))
       THEN /\ panicked' = "Do: non-positive interval for NewTicker"
            /\ UNCHANGED <<ticker, tickRunning, cpc>>
       ELSE /\ ticker' = doOk + 1
            /\ tickRunning' = [tickRunning EXCEPT ![doOk + 1] = TRUE]
            /\ cpc' = "DoGo"
            /\ UNCHANGED panicked
    /\ UNCHANGED <<cfgVars, valVars, counter, stop, mu, held, tickBuf, callerVars, doErr,
                   resetVars, histVars>>

\* mutant of DoGo: a Do that also clears the stop flag, restarting the limiter
DoGo_ClearsStop ==
    /\ Alive /\ cpc = "DoGo"
    /\ rpc' = [rpc EXCEPT ![doOk + 1] = "check"]
    /\ doOk' = doOk + 1
    /\ doErr' = "nil"
    /\ cpc' = "idle"
    /\ stop' = FALSE
    /\ UNCHANGED <<cfgVars, valVars, counter, ticker, mu, heapVars, callerVars, rch, panicked,
                   afterStop, stopReturned,
                   atStopInWrite, accepts, nTrue, nFalse, winTrue, resets, ticks,
                   doCalls, stopCalls, reconfs>>

\* go fw.reset(); return nil
DoGo ==
    /\ Alive /\ cpc = "DoGo"
    /\ rpc' = [rpc EXCEPT ![doOk + 1] = "check"]
    /\ doOk' = doOk + 1
    /\ doErr' = "nil"
    /\ cpc' = "idle"
    /\ UNCHANGED <<cfgVars, valVars, fieldVars, heapVars, callerVars, rch, panicked,
                   afterStop, stopReturned,
                   atStopInWrite, accepts, nTrue, nFalse, winTrue, resets, ticks,
                   doCalls, stopCalls, reconfs>>

(* ------------------------------- Stop ---------------------------------- *)
\* fw.stop = true (no lock)
StopSetFlag ==
    /\ Alive /\ cpc = "idle" /\ stopCalls < MaxStop
    /\ stopCalls' = stopCalls + 1
    /\ stop' = TRUE
    /\ cpc' = "StopTicker"
    /\ UNCHANGED <<cfgVars, valVars, counter, ticker, mu, heapVars, callerVars, doErr,
                   resetVars, panicked, afterStop,
                   stopReturned, atStopInWrite, accepts, nTrue, nFalse, winTrue,
                   resets, ticks, doCalls, doOk, reconfs>>

\* fw.ticker.Stop(): a nil *Ticker panics. The ticker delivers no more ticks;
\* a tick already waiting in its channel stays there (buffered channel, Go
\* before 1.23 or asynctimerchan=1) or is discarded (Go 1.23 and later)
StopTicker ==
    /\ Alive /\ cpc = "StopTicker"
    /\ IF ticker = Nil
       THEN /\ panicked' = "Stop: nil ticker"
            /\ UNCHANGED <<tickRunning, tickBuf, cpc, stopReturned, atStopInWrite>>
       ELSE /\ tickRunning' = [tickRunning EXCEPT ![ticker] = FALSE]
            /\ \E keep \in BOOLEAN :
                 tickBuf' = [tickBuf EXCEPT ![ticker] = IF keep THEN @ ELSE 0]
            /\ cpc' = "idle"
            /\ stopReturned' = TRUE
            /\ atStopInWrite' = IF stopReturned THEN atStopInWrite
                                ELSE {i \in Ids : rpc[i] = "write"}
            /\ UNCHANGED panicked
    /\ UNCHANGED <<cfgVars, valVars, fieldVars, held, callerVars, doErr, resetVars,
                   afterStop, accepts, nTrue, nFalse,
                   winTrue, resets, ticks, doCalls, doOk, stopCalls, reconfs>>

(* ------------------------------ reset ---------------------------------- *)
\* for !fw.stop (no lock)
ResetCheck(i) ==
    /\ Alive /\ rpc[i] = "check"
    /\ rpc' = [rpc EXCEPT ![i] = IF stop THEN "done" ELSE "eval"]
    /\ UNCHANGED <<cfgVars, valVars, fieldVars, heapVars, callerVars, ctlVars, rch, panicked,
                   histVars>>

\* fw.ticker.C: the field is read, the channel chosen
ResetEval(i) ==
    /\ Alive /\ rpc[i] = "eval"
    /\ rch' = [rch EXCEPT ![i] = ticker]
    /\ rpc' = [rpc EXCEPT ![i] = "recv"]
    /\ UNCHANGED <<cfgVars, valVars, fieldVars, heapVars, callerVars, ctlVars, panicked,
                   histVars>>

\* <-fw.ticker.C: blocks until a tick waits in the channel
ResetRecv(i) ==
    /\ Alive /\ rpc[i] = "recv" /\ tickBuf[rch[i]] = 1
    /\ tickBuf' = [tickBuf EXCEPT ![rch[i]] = 0]
    /\ rpc' = [rpc EXCEPT ![i] = "write"]
    /\ UNCHANGED <<cfgVars, valVars, fieldVars, held, tickRunning, callerVars, ctlVars, rch,
                   panicked, histVars>>

\* mutant of ResetWrite: the resetter returns after its first assignment
ResetWrite_Once(i) ==
    /\ Alive /\ rpc[i] = "write"
    /\ counter' = 0
    /\ rpc' = [rpc EXCEPT ![i] = "done"]
    /\ resets' = IF resets < MaxTicks THEN resets + 1 ELSE resets
    /\ winTrue' = 0
    /\ atStopInWrite' = atStopInWrite \ {i}
    /\ UNCHANGED <<cfgVars, valVars, ticker, stop, mu, heapVars, callerVars, ctlVars,
                   rch, panicked, afterStop, stopReturned,
                   accepts, nTrue, nFalse, ticks, doCalls, doOk, stopCalls, reconfs>>

\* fw.counter = 0 (no lock). `resets` counts the assignments up to MaxTicks
\* (where the ticks are bounded, by Tick, it is their exact number)
ResetWrite(i) ==
    /\ Alive /\ rpc[i] = "write"
    /\ counter' = 0
    /\ rpc' = [rpc EXCEPT ![i] = "check"]
    /\ resets' = IF resets < MaxTicks THEN resets + 1 ELSE resets
    /\ winTrue' = 0
    /\ atStopInWrite' = atStopInWrite \ {i}
    /\ UNCHANGED <<cfgVars, valVars, ticker, stop, mu, heapVars, callerVars, ctlVars, rch,
                   panicked, afterStop, stopReturned,
                   accepts, nTrue, nFalse, ticks, doCalls, doOk, stopCalls, reconfs>>

(* ------------------------------ ticker --------------------------------- *)
\* the runtime sends a tick on a running ticker's channel; the channel holds
\* one tick, a tick that finds it full is dropped
Tick(t) ==
    /\ Alive /\ tickRunning[t] /\ tickBuf[t] = 0 /\ ticks < MaxTicks
    /\ tickBuf' = [tickBuf EXCEPT ![t] = 1]
    /\ ticks' = ticks + 1
    /\ UNCHANGED <<cfgVars, valVars, fieldVars, held, tickRunning, callerVars, ctlVars,
                   resetVars, panicked, afterStop,
                   stopReturned, atStopInWrite, accepts, nTrue, nFalse, winTrue,
                   resets, doCalls, doOk, stopCalls, reconfs>>

\* the same, for as long as the ticker runs (the ticks are not counted)
TickForever(t) ==
    /\ Alive /\ tickRunning[t] /\ tickBuf[t] = 0
    /\ tickBuf' = [tickBuf EXCEPT ![t] = 1]
    /\ UNCHANGED <<cfgVars, valVars, fieldVars, held, tickRunning, callerVars,
                   ctlVars, resetVars, panicked, histVars>>

(* ------------------------ the exported fields -------------------------- *)
\* the owner assigns Duration, Unit and Limit between its calls
Reconfigure ==
    /\ Alive /\ cpc = "idle" /\ reconfs < MaxReconf
    /\ reconfs' = reconfs + 1
    /\ \E c \in Configs \ {<<Duration, Unit, Limit>>} :
         Duration' = c[1] /\ Unit' = c[2] /\ Limit' = c[3]
    /\ UNCHANGED <<valVars, fieldVars, heapVars, callerVars, ctlVars, resetVars,
                   panicked, afterStop, stopReturned,
                   atStopInWrite, accepts, nTrue, nFalse, winTrue, resets, ticks,
                   doCalls, doOk, stopCalls>>

(* --------------------------- specifications ---------------------------- *)
\* the steps of an Accept() call after its first
AcceptSteps(p) ==
    \/ AcceptLock(p) \/ AcceptDefer(p) \/ AcceptReadStop(p) \/ AcceptReadCounter(p)
    \/ AcceptLoad(p) \/ AcceptStore(p) \/ AcceptReturn(p)

\* what runs once Do() has passed validation, and Stop()
Background ==
    \/ DoMu \/ DoTicker \/ DoGo
    \/ StopSetFlag \/ StopTicker
    \/ \E i \in Ids : ResetCheck(i) \/ ResetEval(i) \/ ResetRecv(i) \/ ResetWrite(i)
    \/ \E t \in Ids : Tick(t)

\* Spec: a limiter with a fixed configuration, started by at most one
\* successful Do (Do is called until it has succeeded once), used by all
\* callers concurrently.
FirstDo == doOk = 0 /\ DoValidate
Next ==
    \/ FirstDo
    \/ \E p \in Callers : AcceptBegin(p) \/ AcceptSteps(p)
    \/ Background
Spec == Init /\ [][Next]_vars

\* SpecReDo: Do and Stop are called again and again, in any order, while the
\* callers run.
AcceptBeginReDo(p) == accepts < MaxAcceptsReDo /\ AcceptBegin(p)
NextReDo ==
    \/ DoValidate
    \/ \E p \in Callers : AcceptBeginReDo(p) \/ AcceptSteps(p)
    \/ Background
SpecReDo == Init /\ [][NextReDo]_vars

\* SpecCfg: the owner also assigns the exported fields between its calls
\* to Do and Stop; one caller uses the limiter.
NextCfg ==
    \/ DoValidate \/ Reconfigure
    \/ AcceptBeginReDo(1) \/ AcceptSteps(1)
    \/ Background
SpecCfg == Init /\ [][NextCfg]_vars

\* SpecConfig: a limiter constructed with any configuration of WideConfigs,
\* on which the owner calls Validate() and Do().
NextConfig ==
    \/ ValidateCall
    \/ DoValidate \/ DoMu \/ DoTicker \/ DoGo
SpecConfig == InitFrom(WideConfigs) /\ [][NextConfig]_vars

\* On a started limiter: Accept() and Stop() are called once a Do() has
\* returned nil.
AcceptBeginStarted(p) == doOk >= 1 /\ AcceptBegin(p)
StopStarted == doOk >= 1 /\ StopSetFlag

\* the steps of a resetter goroutine
ResetSteps(i) == ResetCheck(i) \/ ResetEval(i) \/ ResetRecv(i) \/ ResetWrite(i)

\* SpecLive: a limiter started by one successful Do and never stopped, used
\* by all callers, whose ticker delivers ticks for ever. The runtime keeps
\* sending ticks and keeps scheduling the resetter goroutine (weak fairness);
\* nothing is assumed of the callers.
NextLive ==
    \/ FirstDo \/ DoMu \/ DoTicker \/ DoGo
    \/ \E p \in Callers : AcceptBeginStarted(p) \/ AcceptSteps(p)
    \/ \E i \in Ids : ResetSteps(i)
    \/ \E t \in Ids : TickForever(t)
SpecLive ==
    /\ Init /\ [][NextLive]_vars
    /\ \A t \in Ids : WF_vars(TickForever(t))
    /\ \A i \in Ids : WF_vars(ResetSteps(i))

\* SpecFair: Spec on a started limiter, with a fair scheduler: a caller
\* goroutine that can take a step takes it (weak fairness), and a goroutine
\* waiting in Lock() gets the mutex if it is free again and again (strong
\* fairness: sync.Mutex hands the lock to a waiter that has starved).
NextFair ==
    \/ FirstDo \/ DoMu \/ DoTicker \/ DoGo
    \/ \E p \in Callers : AcceptBeginStarted(p) \/ AcceptSteps(p)
    \/ StopStarted \/ StopTicker
    \/ \E i \in Ids : ResetSteps(i)
    \/ \E t \in Ids : Tick(t)
SpecFair ==
    /\ Init /\ [][NextFair]_vars
    /\ \A p \in Callers :
         /\ SF_vars(AcceptLock(p))
         /\ WF_vars(AcceptDefer(p) \/ AcceptReadStop(p) \/ AcceptReadCounter(p)
                      \/ AcceptLoad(p) \/ AcceptStore(p) \/ AcceptReturn(p))

(* ------------------------------ claims --------------------------------- *)
\* C1: with one successful Do, as long as no reset has written the counter
\* and Stop has not been called, of the n Accept calls that have returned,
\* under any interleaving, min(Limit, n) returned true and the others false
\* (so Limit + K calls give Limit true and K false), and the counter is
\* never above Limit.
C1_ConcurrentAccepts ==
    (resets = 0 /\ stopCalls = 0) =>
        /\ counter <= Limit
        /\ nTrue = (IF nTrue + nFalse < Limit THEN nTrue + nFalse ELSE Limit)

\* Limit calls returned true and one false, while one caller is returning
\* and the other waits for the lock
C1_Witness ==
    /\ doOk = 1 /\ ticks = 0 /\ stopCalls = 0
    /\ nTrue = Limit /\ nFalse >= 1
    /\ \E p, q \in Callers : pc[p] = "ret" /\ pc[q] = "lock"

\* C2: in every reachable state of a limiter started by one successful Do,
\* whatever Accept calls, resetter firings and Stop have interleaved,
\* 0 <= counter <= Limit.
C2_CounterInRange == 0 <= counter /\ counter <= Limit

\* the counter is at the limit again after a reset, and Stop has returned
C2_Witness ==
    /\ doOk = 1 /\ resets >= 1 /\ stopReturned
    /\ Limit = MaxLimit /\ counter = Limit

\* C3: once Limit Accept calls have been admitted since the last reset (or
\* since Do), the counter equals Limit and no Accept call is admitted (none
\* is on the way to its increment) until a reset writes the counter.
C3_FullWindowRejects ==
    (doOk = 1 /\ winTrue = Limit) =>
        /\ counter = Limit
        /\ \A p \in Callers : pc[p] \notin {"load", "store"}

\* the README's run: Limit = 2, five calls, two true then three false
C3_Witness ==
    /\ Limit = 2 /\ resets = 0 /\ ~stop
    /\ winTrue = 2 /\ nTrue = 2 /\ nFalse = 3 /\ counter = 2

\* C4: as long as no reset has written the counter, Counter() returns the
\* number of Accept calls that returned true so far (plus the calls that have
\* made their increment and are about to return true), and that number is at
\* most Limit.
C4_CounterCountsAccepted ==
    resets = 0 => (Counter = nTrue + PastIncrement /\ nTrue <= Limit)

\* two calls have returned true, none is in flight, Counter() is 2
C4_Witness ==
    /\ resets = 0 /\ nTrue = 2 /\ Counter = 2
    /\ \A p \in Callers : pc[p] = "idle"

\* C5: on a running limiter a reset is never lost: once a reset has written
\* the counter, the counter is the number of Accept calls admitted since the
\* last reset (0 right after it, 1 after the next Accept call), whatever
\* Accept calls were in progress when the resetter fired.
C5_ResetNeverLost ==
    (doOk = 1 /\ resets >= 1 /\ ~stop) => counter = winTrue

\* C6: an Accept call that begins after a Stop() has returned is never
\* admitted and never writes the counter, whatever Do and Stop calls follow.
C6_StoppedIsTerminal ==
    \A p \in Callers :
        afterStop[p] => (~acc[p] /\ pc[p] \notin {"rdctr", "load", "store"})

\* Stop returned with a non-zero counter, Do succeeded again, and a call
\* made on the new mutex is returning false
C6_Witness ==
    /\ doOk = 2 /\ stopReturned /\ counter > 0 /\ counter < Limit
    /\ \E p \in Callers : afterStop[p] /\ pc[p] = "ret" /\ mloc[p] = 2

\* C7: once Stop() has returned, a resetter assigns counter = 0 only if it
\* had already consumed its tick when Stop returned.
C7_NoResetAfterStop ==
    [][\A i \in Ids :
         (stopReturned /\ rpc[i] = "write" /\ rpc'[i] = "check")
             => i \in atStopInWrite]_vars

\* C8: Stop() never crashes, also on a limiter that was never started.
C8_StopNeverCrashes == panicked # "Stop: nil ticker"

\* C9: Accept() never crashes on a limiter on which Do has not succeeded.
C9_AcceptBeforeDoRejects == panicked # "Accept: nil mutex"

\* C10: a Do() call on a configuration Validate rejects returns that error
\* at once and changes no field, no mutex, no ticker and starts no resetter.
C10_FailedDoChangesNothing ==
    [][(cpc = "idle" /\ doCalls' = doCalls + 1
          /\ Validate(Duration, Unit, Limit) # "nil")
        => /\ doErr' = Validate(Duration, Unit, Limit)
           /\ cpc' = "idle"
           /\ panicked' = "none"
           /\ UNCHANGED <<cfgVars, fieldVars, heapVars, resetVars>>]_vars

\* Do failed on a limiter that had been started, used and stopped
C10_Witness ==
    /\ doErr \notin {"nil", "none"} /\ doOk = 1
    /\ mu # Nil /\ counter > 0 /\ stop

\* C11: Validate() returns an error exactly when Duration = 0 or Limit = 0
\* or Unit is none of "second", "minute", "hour"; the error names the
\* duration if Duration = 0, else the limit if Limit = 0, else the unit
\* (three different errors); the call assigns no field, and a call repeated
\* on the same configuration returns what the call before it returned.
C11_ValidateContract ==
    /\ [](valCalls >= 1 =>
            /\ verr # "nil" <=> (\/ Duration = U64(0) \/ Limit = 0
                                 \/ Unit \notin {"second", "minute", "hour"})
            /\ Duration = U64(0) => verr = "duration must be greater than zero"
            /\ (Duration # U64(0) /\ Limit = 0)
                   => verr = "limit must be greater than zero"
            /\ (Duration # U64(0) /\ Limit # 0
                   /\ Unit \notin {"second", "minute", "hour"})
                   => verr = "expected one of them")
    /\ [][valCalls' = valCalls + 1 =>
            /\ UNCHANGED <<cfgVars, fieldVars, heapVars, resetVars, doErr>>
            /\ valCalls >= 1 => verr' = verr]_vars

\* Validate() was called twice on a configuration wrong in all three ways
\* and named the duration
C11_Witness ==
    /\ valCalls = 2 /\ Duration = U64(0) /\ Limit = 0 /\ Unit = "day"
    /\ verr = "duration must be greater than zero"

\* C12: after Stop() the resetter's loop exits in every execution; it is
\* never left blocked forever waiting for a tick. A resetter waiting on a
\* channel that holds no tick and whose ticker has been stopped is blocked
\* forever (no tick is sent on a stopped ticker, and Stop does not close the
\* channel), so once Stop() has returned no resetter is in that position.
C12_ResetterExitsAfterStop ==
    \A i \in Ids :
        (stopReturned /\ rpc[i] = "recv")
            => (tickBuf[rch[i]] = 1 \/ tickRunning[rch[i]])

\* the caller goroutines that hold the mutex they locked
InCriticalSection ==
    {p \in Callers : pc[p] \in {"defer", "rdstop", "rdctr", "load", "store", "ret"}}

\* C13: every access to the counter and to the stop flag is made under the
\* limiter's lock; in particular no resetter writes the counter and Stop
\* does not write the flag while an Accept call is inside its critical
\* section.
C13_SharedStateUnderLock ==
    [][(resets' # resets \/ stop' # stop) => InCriticalSection = {}]_vars

\* C14: on a running limiter on which Stop is never called, the resetter
\* assigns counter = 0 again and again, whether or not Accept is called; a
\* state with counter = Limit is followed by one with counter = 0; and every
\* firing leaves the counter at 0, also one that found it at 0.
C14_ResetterKeepsFiring ==
    /\ <>[](doOk # 1)
         \/ []<><<\E i \in Ids : rpc[i] = "write" /\ rpc'[i] = "check">>_vars
    /\ (doOk = 1 /\ counter = Limit) ~> (counter = 0)
    /\ [][(\E i \in Ids : rpc[i] = "write" /\ rpc'[i] # "write")
            => counter' = 0]_vars

\* no Accept call was ever made, the resetter has fired and has received
\* the next tick, with the counter at 0
C14_Witness ==
    /\ doOk = 1 /\ accepts = 0 /\ resets >= 1 /\ counter = 0
    /\ \E i \in Ids : rpc[i] = "write"

\* C15: on a started limiter every Accept call returns: it does not crash,
\* a call in progress is followed by its return under every interleaving
\* with other Accept calls, resetter firings and Stop, and a mutex is held
\* only by a call still inside its critical section (it is released on
\* every path).
C15_AcceptTerminates ==
    /\ \A p \in Callers : (pc[p] # "idle") ~> (pc[p] = "idle")
    /\ [](\A m \in Ids : held[m] => \E p \in InCriticalSection : mloc[p] = m)
    /\ [](panicked = "none")

\* a caller waits for the mutex while the other is returning false on a
\* stopped limiter, and Accept calls have returned both true and false
C15_Witness ==
    /\ stopReturned /\ nTrue >= 1 /\ nFalse >= 1
    /\ \E p, q \in Callers : pc[p] = "lock" /\ pc[q] = "ret" /\ ~acc[q]

\* a 64-bit value in 128 bits, where the products of this model do not wrap
Widen(x) == x \o <<0, 0, 0, 0, 0, 0, 0, 0>>

\* C16: for every configuration Validate accepts, Do returns nil without
\* aborting: duration() does not reach its unsupported-unit panic, and the
\* period the ticker is created with is strictly positive and equal to
\* Duration x (1, 60 or 3600 seconds), with no wrap-around of the 64-bit
\* time value.
C16_ValidConfigStarts ==
    Validate(Duration, Unit, Limit) = "nil" =>
        /\ panicked = "none"
        /\ (doCalls >= 1 /\ cpc = "idle") => doErr = "nil"
        /\ panicked # "Do: unsupported time unit"
        /\ ticker # Nil =>
             /\ Positive64(duration(Duration, Unit))
             /\ Widen(duration(Duration, Unit))
                  = Times(Widen(Duration), Nanoseconds(Unit))

\* C17: whatever Do and Stop calls are made on one limiter, at most one
\* resetter of it is alive at any time, and at most one ticker of it is
\* running: a second Do does not leave two resetters, or a ticker that is
\* never stopped, behind.
C17_SingleResetter ==
    /\ Cardinality({i \in Ids : rpc[i] \notin {"none", "done"}}) <= 1
    /\ Cardinality({t \in Ids : tickRunning[t]}) <= 1

\* C18: when Do is called again on a running limiter while Accept calls are
\* in progress, at most one Accept call is between its Lock and its Unlock
\* at any time, and counter <= Limit in every reachable state.
C18_ExclusionSurvivesReDo ==
    /\ Cardinality(InCriticalSection) <= 1
    /\ counter <= Limit

\* C19: on a limiter started by one successful Do, the Accept calls that
\* have returned true are at most Limit x (r + 1), r the number of times
\* the resetter has assigned the counter, under every interleaving of
\* Accept calls, resetter firings and Stop.
C19_AdmissionBound == doOk = 1 => nTrue <= Limit * (resets + 1)

\* the resetter has fired once and twice the largest limit has been admitted
C19_Witness ==
    /\ doOk = 1 /\ resets = 1 /\ Limit = MaxLimit
    /\ nTrue = Limit * (resets + 1)

====
